---------------------------- MODULE Spec2Model ----------------------------
(***************************************************************************)
(* The Spotify controller pool (src/src/utils/spotifyControllerPool.js)    *)
(* and the pooled-embed lifecycle of VideoEmbed                            *)
(* (src/src/components/Feed/VideoEmbed.jsx, the component that starts at   *)
(* line 307), as one state machine on the single event loop.               *)
(*                                                                         *)
(* One action is one task of the event loop together with the microtasks   *)
(* it queues: an IntersectionObserver callback, the SDK-ready callback,    *)
(* the createController callback, a React commit (unmount, prop change).   *)
(* claimController suspends only at its two awaits (lines 55 and 62); on   *)
(* the free-entry and steal paths it runs to completion inside the caller's*)
(* task and its .then continuation is the next microtask.                  *)
(***************************************************************************)
EXTENDS Integers, Sequences, FiniteSets, TLC

\* ------------------------------------------------------------------ bounds
NumInst == 2
MaxContentChanges == 1
MaxTimers == 2
MaxSdkFailures == 1

\* --------------------------------------------------------------- constants
MAX_POOL_SIZE == 1

Inst == 1..NumInst
\* Every suspended claim, and every pool entry, stems from a preload-zone effect
\* closure: one per instance and one more per embedUrl change
ClaimSlots == 1..(NumInst + MaxContentChanges)
EmbedUrls == {"embed/track/a", "embed/episode/b"}
NULL == "null"

\* The cards of the feed show different items
InitialUrl(i) == IF i % 2 = 1 THEN "embed/track/a" ELSE "embed/episode/b"

\* getSpotifyUri: embed/{type}/{id} -> spotify:{type}:{id}, null when the
\* pattern does not match
getSpotifyUri(embedUrl) ==
  CASE embedUrl = "embed/track/a"   -> "spotify:track:a"
    [] embedUrl = "embed/episode/b" -> "spotify:episode:b"
    [] OTHER                        -> NULL

VARIABLES
  pool,          \* the module-level pool array: sequence of entries
  parking,       \* children of the parking container, in DOM order (iframe ids)
  host,          \* host[f]: parent of iframe f: 0 = parking, i = container of instance i
  apiReady,      \* spotifyIframeApiReady has resolved
  claims,        \* claimController calls suspended at an await, in call order
  alive,         \* alive[i]: the instance is mounted
  embedUrl,      \* embedUrl[i]: the embedUrl prop
  changes,       \* number of embedUrl changes so far (bounded)
  shouldLoad,    \* shouldLoad[i]
  zoneIn,        \* last isIntersecting delivered by the preload-zone observer
  full,          \* last isFullyVisible delivered by the visibility observer
  poolEntryRef,  \* poolEntryRef[i].current: index into pool, 0 = null
  hasController, \* hasController[i]
  isVisibleRef,  \* isVisibleRef[i].current
  isPlayingRef,  \* isPlayingRef[i].current
  claimPending,  \* claimPending of the current preload-zone effect closure
  diedPlaying,   \* history: instances that were playing when they unmounted
  ev,            \* history: what the last task did
  platform,      \* platform[i]: the platform prop
  hasError,      \* hasError[i]
  isPlayerReadyRef, \* isPlayerReadyRef[i].current
  readyTimerRef, \* readyTimerRef[i].current: a timer id, 0 = null
  timers,        \* pending setTimeout callbacks: [id, inst, url]
  timerSeq,      \* number of setTimeout calls so far (bounded)
  sent,          \* commands posted to the frame by the last task, in order
  lastCmd,       \* history: lastCmd[i]: the last command sequence sent by i
  waiting,       \* history: i entered the active zone unready and has since
                 \* neither left it nor played
  sdkFailures,   \* createController callbacks that found no iframe (bounded)
  cardPhase,     \* VideoCardEmbed i: "new" (rendered, effects not yet run),
                 \* "mounted", "unmounted"
  destinationUrl, \* the destinationUrl prop: "none", "supported", "unsupported"
  videoData,     \* videoData[i] is set
  fallback,      \* fallback[i]
  isLoading,     \* isLoading[i]
  cardObserving, \* the slow-path observer of card i is connected
  fetchState,    \* fetchFragmentHtml of card i: "idle", "pending", "done"
  cardCancelled, \* cancelled of the slow-path effect closure
  attempts       \* history: fetches issued and urls parsed by card i

vars == << pool, parking, host, apiReady, claims, alive, embedUrl, changes,
           shouldLoad, zoneIn, full, poolEntryRef, hasController, isVisibleRef,
           isPlayingRef, claimPending, diedPlaying, ev, platform, hasError,
           isPlayerReadyRef, readyTimerRef, timers, timerSeq, sent, lastCmd,
           waiting, sdkFailures, cardPhase, destinationUrl, videoData, fallback,
           isLoading, cardObserving, fetchState, cardCancelled, attempts >>

poolVars == << pool, parking, host >>
instVars == << poolEntryRef, hasController, isVisibleRef, isPlayingRef, claimPending >>
cardVars == << cardPhase, destinationUrl, videoData, fallback, isLoading,
              cardObserving, fetchState, cardCancelled, attempts >>
feedVars == << pool, parking, host, apiReady, claims, alive, embedUrl, changes,
              shouldLoad, zoneIn, full, poolEntryRef, hasController, isVisibleRef,
              isPlayingRef, claimPending, diedPlaying, ev, platform, hasError,
              isPlayerReadyRef, readyTimerRef, timers, timerSeq, sent, lastCmd,
              waiting, sdkFailures >>
msgVars == << platform, hasError, isPlayerReadyRef, readyTimerRef, timers, timerSeq,
             sent, waiting >>

Roles == {"none", "visible", "recent"}

\* ------------------------------------------------------------ sequences/DOM
RECURSIVE Without(_, _)
Without(s, x) ==
  IF s = << >> THEN << >>
  ELSE IF Head(s) = x THEN Without(Tail(s), x)
  ELSE << Head(s) >> \o Without(Tail(s), x)

FindFreeNone(p) == 0
\* pool.find(pred): index of the first entry satisfying pred, 0 when none
FindFree(p) ==
  IF \E k \in 1..Len(p) : ~p[k].claimed
  THEN CHOOSE k \in 1..Len(p) : ~p[k].claimed /\ \A j \in 1..(k-1) : p[j].claimed
  ELSE 0

FindClaimed(p) ==
  IF \E k \in 1..Len(p) : p[k].claimed
  THEN CHOOSE k \in 1..Len(p) : p[k].claimed /\ \A j \in 1..(k-1) : ~p[j].claimed
  ELSE 0

ParkIframeDetached(ps, f) ==
  [ps EXCEPT !.parking = Without(ps.parking, f), !.host[f] = 0]
\* node.appendChild(iframe): the iframe leaves its parent and becomes the last
\* child of the new one. A pool state is the record [pool, parking, host].
ParkIframe(ps, f) ==
  [ps EXCEPT !.parking = Append(Without(ps.parking, f), f), !.host[f] = 0]

AttachIframe(ps, f, i) ==
  [ps EXCEPT !.parking = Without(ps.parking, f), !.host[f] = i]

\* A placeholder the SDK has not replaced is a div, not an iframe: no
\* querySelector('iframe') finds it and nothing refers to it any more
DiscardPlaceholder(ps, f) ==
  [ps EXCEPT !.parking = Without(ps.parking, f),
             !.host = IF f = Len(ps.host) THEN SubSeq(ps.host, 1, f - 1) ELSE ps.host]

\* parking.querySelector('iframe'): the first iframe in the parking container
QueryIframe(prk) == IF prk = << >> THEN 0 ELSE Head(prk)

PS == [pool |-> pool, parking |-> parking, host |-> host]

\* ------------------------------------------------------------- pool module
NewEntry(f, uri) ==
  [iframe |-> f, uri |-> uri, claimed |-> FALSE, role |-> "none",
   playing |-> FALSE, cb |-> 0]

\* claimController line 54: a new controller is constructed when no entry is
\* free and the pool array is shorter than MAX_POOL_SIZE
MayConstruct(p) == FindFree(p) = 0 /\ Len(p) < MAX_POOL_SIZE

\* claimController line 90: the entry taken from its holder (0 when none)
StealVictim(p) == FindClaimed(p)

ClaimTailAlwaysLoads(ps, e, i, uri) ==
  [ps |-> AttachIframe([ps EXCEPT !.pool[e].claimed = TRUE, !.pool[e].uri = uri],
                       ps.pool[e].iframe, i),
   entry |-> e, loads |-> 1]
\* claimController lines 96-105: claim entry e for the container of instance i
\* and switch its content when the uri differs
ClaimTail(ps, e, i, uri) ==
  LET f  == ps.pool[e].iframe
      p1 == [ps.pool EXCEPT ![e].claimed = TRUE]
      p2 == IF p1[e].uri # uri THEN [p1 EXCEPT ![e].uri = uri] ELSE p1
      moved == AttachIframe([ps EXCEPT !.pool = p2], f, i)
  IN [ps |-> moved, entry |-> e,
      loads |-> IF ps.pool[e].uri # uri THEN 1 ELSE 0]

\* claimController lines 88-94 followed by 96-107, entered with entry = null
StealOrNull(ps, i, uri) ==
  LET v == StealVictim(ps.pool)
  IN IF v = 0
     THEN [ps |-> ps, entry |-> 0, loads |-> 0]
     ELSE ClaimTail(ParkIframe(ps, ps.pool[v].iframe), v, i, uri)

ReleaseWithoutParking(ps, e) ==
  IF e = 0 THEN ps ELSE [ps EXCEPT !.pool[e].claimed = FALSE]
\* releaseController
releaseController(ps, e) ==
  IF e = 0 THEN ps
  ELSE ParkIframe([ps EXCEPT !.pool[e].claimed = FALSE], ps.pool[e].iframe)

\* updateRole, playController, pauseController are imported by VideoEmbed from
\* the pool module but are not part of the pool source at hand
updateRole(p, e, newRole) == [p EXCEPT ![e].role = newRole]
playController(p, e) == [p EXCEPT ![e].playing = TRUE]
pauseController(p, e) == [p EXCEPT ![e].playing = FALSE]

\* ------------------------------------------------------------ history record
NoEv == [op |-> "init", inst |-> 0, entry |-> 0, kind |-> "-", vrole |-> "-",
         loads |-> 0, cmd |-> "-", live |-> TRUE]
Ev(op, i, e) == [NoEv EXCEPT !.op = op, !.inst = i, !.entry = e]

\* ---------------------------------------------------------------- instance
ResolveKeepingPending(r, i, cancelled, info) ==
  LET e        == r.entry
      adopt    == ~cancelled /\ e # 0
      autoplay == adopt /\ isVisibleRef[i] /\ ~isPlayingRef[i]
      p1 == IF adopt THEN [r.ps.pool EXCEPT ![e].cb = i] ELSE r.ps.pool
      p2 == IF autoplay THEN playController(updateRole(p1, e, "visible"), e) ELSE p1
  IN /\ pool' = p2
     /\ parking' = r.ps.parking
     /\ host' = r.ps.host
     /\ poolEntryRef' = IF adopt THEN [poolEntryRef EXCEPT ![i] = e] ELSE poolEntryRef
     /\ hasController' = IF adopt THEN [hasController EXCEPT ![i] = TRUE]
                         ELSE hasController
     /\ UNCHANGED << isVisibleRef, isPlayingRef, claimPending >>
     /\ lastCmd' = IF autoplay THEN [lastCmd EXCEPT ![i] = "play"] ELSE lastCmd
     /\ ev' = [info EXCEPT !.entry = e, !.loads = r.loads, !.live = ~cancelled,
                           !.cmd = IF autoplay THEN "play" ELSE "-"]
\* The .then continuation of claimController (VideoEmbed lines 361-372) for the
\* claim of instance i that resolved with entry e (0 = null); cancelled is the
\* closure flag of the effect that issued the claim. The onPlaybackChange effect
\* (lines 438-448) runs in the commit that follows setHasController(true).
Resolve(r, i, cancelled, info) ==
  LET e        == r.entry
      adopt    == ~cancelled /\ e # 0
      autoplay == adopt /\ isVisibleRef[i] /\ ~isPlayingRef[i]
      p1 == IF adopt THEN [r.ps.pool EXCEPT ![e].cb = i] ELSE r.ps.pool
      p2 == IF autoplay THEN playController(updateRole(p1, e, "visible"), e) ELSE p1
  IN /\ pool' = p2
     /\ parking' = r.ps.parking
     /\ host' = r.ps.host
     /\ claimPending' = IF cancelled THEN claimPending
                        ELSE [claimPending EXCEPT ![i] = FALSE]
     /\ poolEntryRef' = IF adopt THEN [poolEntryRef EXCEPT ![i] = e] ELSE poolEntryRef
     /\ hasController' = IF adopt THEN [hasController EXCEPT ![i] = TRUE]
                         ELSE hasController
     /\ UNCHANGED << isVisibleRef, isPlayingRef >>
     /\ lastCmd' = IF autoplay THEN [lastCmd EXCEPT ![i] = "play"] ELSE lastCmd
     /\ ev' = [info EXCEPT !.entry = e, !.loads = r.loads, !.live = ~cancelled,
                           !.cmd = IF autoplay THEN "play" ELSE "-"]

DropEntryKeepingPlaying(i) ==
  LET e  == poolEntryRef[i]
      ps == releaseController(PS, e)
  IN /\ pool' = [ps.pool EXCEPT ![e].cb = 0]
     /\ parking' = ps.parking
     /\ host' = ps.host
     /\ poolEntryRef' = [poolEntryRef EXCEPT ![i] = 0]
     /\ isPlayingRef' = isPlayingRef
     /\ hasController' = [hasController EXCEPT ![i] = FALSE]
     /\ lastCmd' = [lastCmd EXCEPT ![i] = "-"]
\* Release of the held entry as done by the zone-leave branch (lines 373-379)
\* and by the effect cleanup (lines 391-397); the onPlaybackChange effect
\* cleanup (line 447) clears the callback of the entry it captured.
DropEntry(i) ==
  LET e  == poolEntryRef[i]
      ps == releaseController(PS, e)
  IN /\ pool' = [ps.pool EXCEPT ![e].cb = 0]
     /\ parking' = ps.parking
     /\ host' = ps.host
     /\ poolEntryRef' = [poolEntryRef EXCEPT ![i] = 0]
     /\ isPlayingRef' = [isPlayingRef EXCEPT ![i] = FALSE]
     /\ hasController' = [hasController EXCEPT ![i] = FALSE]
     /\ lastCmd' = [lastCmd EXCEPT ![i] = "-"]

CancelClaims(i) ==
  [k \in DOMAIN claims |->
     IF claims[k].inst = i THEN [claims[k] EXCEPT !.cancelled = TRUE] ELSE claims[k]]

Observing(i) ==
  /\ alive[i] /\ shouldLoad[i]
  /\ platform[i] = "spotify"
  /\ getSpotifyUri(embedUrl[i]) # NULL


\* ------------------------------------------------- message-controlled frame
MsgPlatforms == {"youtube", "vimeo"}
\* A YouTube/Vimeo card shares no state with the other cards of the feed: the
\* refs, the timers and the frame are its own. One card is followed.
MsgInst == {1}
TimerIds == 1..MaxTimers

IframeRefIgnoringError(i) == alive[i] /\ shouldLoad[i] /\ platform[i] # "spotify"
\* iframeRef.current is set while the <iframe> element is rendered (lines
\* 625-660): the card is mounted, loaded, not in error and not a Spotify card
IframeRef(i) == alive[i] /\ shouldLoad[i] /\ ~hasError[i] /\ platform[i] # "spotify"

PlayCommandsPlayFirst(pf) ==
  IF pf = "youtube" THEN << "playVideo", "unMute", "seekTo 0" >>
  ELSE << "play", "setVolume 1", "setCurrentTime 0" >>
\* The messages posted by playVideo (lines 455-481), in posting order
PlayCommands(pf) ==
  IF pf = "youtube" THEN << "unMute", "seekTo 0", "playVideo" >>
  ELSE IF pf = "vimeo" THEN << "setVolume 1", "setCurrentTime 0", "play" >>
  ELSE << >>

PauseCommandsMuteFirst(pf) ==
  IF pf = "youtube" THEN << "mute", "pauseVideo" >>
  ELSE << "setVolume 0", "pause" >>
\* The messages posted by pauseVideo (lines 490-508), in posting order
PauseCommands(pf) ==
  IF pf = "youtube" THEN << "pauseVideo", "mute" >>
  ELSE IF pf = "vimeo" THEN << "pause", "setVolume 0" >>
  ELSE << >>

\* clearTimeout(id): a pending timer with that id never fires
ClearTimeout(ts, id) == {t \in ts : t.id # id}

TryAutoplayIgnoringPlaying(visible, ready, playing) == visible /\ ready
TryAutoplayIgnoringZone(visible, ready, playing) == ready /\ ~playing
\* The condition of tryAutoplay (line 515)
tryAutoplay(visible, ready, playing) == visible /\ ready /\ ~playing

PlaysOnZoneUnready(shouldPlay, ready, playing) == shouldPlay /\ ~playing
\* The condition under which the visibility callback plays (lines 589-592)
PlaysOnZone(shouldPlay, ready, playing) == shouldPlay /\ ~playing /\ ready

\* The condition under which the visibility callback pauses (line 594)
PausesOnZone(shouldPlay, playing) == ~shouldPlay /\ playing

\* playVideo (lines 451-484) called by the task op of instance i
playVideo(i, op, arg) ==
  IF IframeRef(i) /\ platform[i] # "spotify"
  THEN /\ sent' = PlayCommands(platform[i])
       /\ isPlayingRef' = [isPlayingRef EXCEPT ![i] = TRUE]
       /\ lastCmd' = [lastCmd EXCEPT ![i] = "play"]
       /\ ev' = [Ev(op, i, arg) EXCEPT !.cmd = "play"]
  ELSE /\ sent' = << >>
       /\ ev' = Ev(op, i, arg)
       /\ UNCHANGED << isPlayingRef, lastCmd >>

\* pauseVideo (lines 487-511) called by the task op of instance i
pauseVideo(i, op, arg) ==
  IF IframeRef(i)
  THEN /\ sent' = PauseCommands(platform[i])
       /\ isPlayingRef' = [isPlayingRef EXCEPT ![i] = FALSE]
       /\ lastCmd' = [lastCmd EXCEPT ![i] = "pause"]
       /\ ev' = [Ev(op, i, arg) EXCEPT !.cmd = "pause"]
  ELSE /\ sent' = << >>
       /\ ev' = Ev(op, i, arg)
       /\ UNCHANGED << isPlayingRef, lastCmd >>

\* A task of instance i that posts nothing
NoCommand(i, op, arg) ==
  /\ sent' = << >>
  /\ ev' = Ev(op, i, arg)
  /\ UNCHANGED << isPlayingRef, lastCmd >>

\* ------------------------------------------------------------------ actions
\* The state after the feed has mounted its cards, whatever their platform
Mounted ==
  /\ pool = << >>
  /\ parking = << >>
  /\ host = << >>
  /\ apiReady = FALSE
  /\ claims = << >>
  /\ alive = [i \in Inst |-> TRUE]
  /\ embedUrl = [i \in Inst |-> InitialUrl(i)]
  /\ changes = 0
  /\ shouldLoad = [i \in Inst |-> FALSE]
  /\ zoneIn = [i \in Inst |-> FALSE]
  /\ full = [i \in Inst |-> FALSE]
  /\ poolEntryRef = [i \in Inst |-> 0]
  /\ hasController = [i \in Inst |-> FALSE]
  /\ isVisibleRef = [i \in Inst |-> FALSE]
  /\ isPlayingRef = [i \in Inst |-> FALSE]
  /\ claimPending = [i \in Inst |-> FALSE]
  /\ diedPlaying = {}
  /\ ev = NoEv
  /\ hasError = [i \in Inst |-> FALSE]
  /\ isPlayerReadyRef = [i \in Inst |-> FALSE]
  /\ readyTimerRef = [i \in Inst |-> 0]
  /\ timers = {}
  /\ timerSeq = 0
  /\ sent = << >>
  /\ lastCmd = [i \in Inst |-> "-"]
  /\ waiting = [i \in Inst |-> FALSE]
  /\ sdkFailures = 0
  /\ cardPhase = [i \in Inst |-> "new"]
  /\ videoData = [i \in Inst |-> FALSE]
  /\ fallback = [i \in Inst |-> FALSE]
  /\ isLoading = [i \in Inst |-> TRUE]
  /\ cardObserving = [i \in Inst |-> FALSE]
  /\ fetchState = [i \in Inst |-> "idle"]
  /\ cardCancelled = [i \in Inst |-> FALSE]
  /\ attempts = [i \in Inst |-> 0]

\* A feed of Spotify cards
Init ==
  /\ Mounted
  /\ platform = [i \in Inst |-> "spotify"]
  /\ destinationUrl = [i \in Inst |-> "supported"]

\* Lazy-load observer (lines 322-340): the card comes within 1000px
LazyLoad(i) ==
  /\ UNCHANGED cardVars
  /\ UNCHANGED lastCmd
  /\ UNCHANGED sdkFailures
  /\ UNCHANGED msgVars
  /\ alive[i] /\ ~shouldLoad[i]
  /\ shouldLoad' = [shouldLoad EXCEPT ![i] = TRUE]
  /\ ev' = Ev("load", i, 0)
  /\ UNCHANGED << pool, parking, host, apiReady, claims, alive, embedUrl, changes,
                  zoneIn, full, poolEntryRef, hasController, isVisibleRef,
                  isPlayingRef, claimPending, diedPlaying >>

\* Preload-zone observer, isIntersecting = true (lines 353-372), with the
\* synchronous part of claimController (lines 50-61, 88-107)
PreloadEnter(i) ==
  /\ UNCHANGED cardVars
  /\ UNCHANGED sdkFailures
  /\ UNCHANGED msgVars
  /\ Observing(i)
  /\ zoneIn' = [zoneIn EXCEPT ![i] = TRUE]
  /\ UNCHANGED << apiReady, alive, embedUrl, changes, shouldLoad, full, diedPlaying >>
  /\ LET uri == getSpotifyUri(embedUrl[i])
         free == FindFree(pool)
     IN IF poolEntryRef[i] = 0 /\ ~claimPending[i]
        THEN IF free # 0
             THEN /\ Resolve(ClaimTail(PS, free, i, uri), i, FALSE,
                             [Ev("claim", i, 0) EXCEPT !.kind = "free"])
                  /\ UNCHANGED claims
             ELSE IF MayConstruct(pool)
             THEN /\ claimPending' = [claimPending EXCEPT ![i] = TRUE]
                  /\ IF apiReady
                     THEN /\ claims' = Append(claims,
                                 [inst |-> i, uri |-> uri, cancelled |-> FALSE,
                                  stage |-> "creating", iframe |-> Len(host) + 1])
                          /\ host' = Append(host, 0)
                          /\ parking' = Append(parking, Len(host) + 1)
                     ELSE /\ claims' = Append(claims,
                                 [inst |-> i, uri |-> uri, cancelled |-> FALSE,
                                  stage |-> "api", iframe |-> 0])
                          /\ UNCHANGED << host, parking >>
                  /\ ev' = [Ev("claim", i, 0) EXCEPT !.kind = "construct"]
                  /\ UNCHANGED << pool, poolEntryRef, hasController,
                                  isVisibleRef, isPlayingRef, lastCmd >>
             ELSE LET v == StealVictim(pool)
                  IN /\ Resolve(StealOrNull(PS, i, uri), i, FALSE,
                                [Ev("claim", i, 0) EXCEPT
                                   !.kind = IF v = 0 THEN "null" ELSE "steal",
                                   !.vrole = IF v = 0 THEN "-" ELSE pool[v].role])
                     /\ UNCHANGED claims
        ELSE /\ ev' = Ev("enter", i, poolEntryRef[i])
             /\ UNCHANGED << pool, parking, host, claims, poolEntryRef, hasController,
                             isVisibleRef, isPlayingRef, claimPending, lastCmd >>

\* Preload-zone observer, isIntersecting = false (lines 373-379)
PreloadLeave(i) ==
  /\ UNCHANGED cardVars
  /\ UNCHANGED sdkFailures
  /\ UNCHANGED msgVars
  /\ Observing(i)
  /\ zoneIn[i]
  /\ zoneIn' = [zoneIn EXCEPT ![i] = FALSE]
  /\ ev' = Ev("leave", i, poolEntryRef[i])
  /\ IF poolEntryRef[i] # 0
     THEN DropEntry(i)
     ELSE UNCHANGED << pool, parking, host, poolEntryRef, isPlayingRef, hasController,
                       lastCmd >>
  /\ UNCHANGED << apiReady, claims, alive, embedUrl, changes, shouldLoad, full,
                  isVisibleRef, claimPending, diedPlaying >>

\* spotifyIframeApiReady resolves (spotifyIframeApi.js lines 19-22): every claim
\* suspended at line 55 resumes in call order and calls createController; the
\* SDK puts an iframe in the place of each placeholder (lines 56-65)
SdkReady ==
  /\ UNCHANGED cardVars
  /\ UNCHANGED lastCmd
  /\ UNCHANGED sdkFailures
  /\ UNCHANGED msgVars
  /\ ~apiReady
  /\ apiReady' = TRUE
  /\ claims' = [k \in DOMAIN claims |->
                  [claims[k] EXCEPT !.stage = "creating", !.iframe = Len(host) + k]]
  /\ host' = host \o [k \in DOMAIN claims |-> 0]
  /\ parking' = parking \o [k \in DOMAIN claims |-> Len(host) + k]
  /\ ev' = Ev("sdk", 0, 0)
  /\ UNCHANGED << pool, alive, embedUrl, changes, shouldLoad, zoneIn, full,
                  poolEntryRef, hasController, isVisibleRef, isPlayingRef,
                  claimPending, diedPlaying >>

\* The createController callback of the k-th suspended claim (lines 66-83), the
\* rest of claimController (lines 88-107) and the caller's continuation; ok
\* tells whether the SDK has put an iframe in the place of the placeholder
ControllerCreated(k, ok) ==
  /\ UNCHANGED cardVars
  /\ UNCHANGED msgVars
  /\ k \in DOMAIN claims
  /\ claims[k].stage = "creating"
  /\ ok \/ sdkFailures < MaxSdkFailures
  /\ sdkFailures' = IF ok THEN sdkFailures ELSE sdkFailures + 1
  /\ LET c == claims[k]
         now == IF ok THEN PS ELSE DiscardPlaceholder(PS, c.iframe)
         f == QueryIframe(now.parking)
         made == [now EXCEPT !.pool = Append(pool, NewEntry(f, c.uri))]
         v == StealVictim(pool)
     IN IF f # 0
        THEN Resolve(ClaimTail(made, Len(pool) + 1, c.inst, c.uri), c.inst, c.cancelled,
                     [Ev("created", c.inst, 0) EXCEPT !.kind = "new"])
        ELSE Resolve(StealOrNull(now, c.inst, c.uri), c.inst, c.cancelled,
                     [Ev("created", c.inst, 0) EXCEPT
                        !.kind = IF v = 0 THEN "null" ELSE "steal",
                        !.vrole = IF v = 0 THEN "-" ELSE pool[v].role])
  /\ claims' = [j \in 1..(Len(claims) - 1) |-> IF j < k THEN claims[j] ELSE claims[j + 1]]
  /\ UNCHANGED << apiReady, alive, embedUrl, changes, shouldLoad, zoneIn, full,
                  diedPlaying >>

\* Visibility observer, ratio >= 0.99 (lines 406-414). The feed shows one card
\* per screen: a card becomes fully visible after its preload-zone event and
\* while no other card is reported fully visible.
VisFull(i) ==
  /\ UNCHANGED cardVars
  /\ UNCHANGED sdkFailures
  /\ UNCHANGED msgVars
  /\ Observing(i)
  /\ zoneIn[i] /\ ~full[i]
  /\ \A j \in Inst \ {i} : ~full[j]
  /\ full' = [full EXCEPT ![i] = TRUE]
  /\ LET e == poolEntryRef[i]
     IN IF e # 0
        THEN /\ pool' = IF isPlayingRef[i] THEN updateRole(pool, e, "visible")
                        ELSE playController(updateRole(pool, e, "visible"), e)
             /\ isVisibleRef' = [isVisibleRef EXCEPT ![i] = TRUE]
             /\ lastCmd' = IF isPlayingRef[i] THEN lastCmd
                           ELSE [lastCmd EXCEPT ![i] = "play"]
             /\ ev' = [Ev("full", i, e) EXCEPT
                         !.cmd = IF isPlayingRef[i] THEN "-" ELSE "play"]
        ELSE /\ ev' = Ev("full", i, 0)
             /\ UNCHANGED << pool, isVisibleRef, lastCmd >>
  /\ UNCHANGED << parking, host, apiReady, claims, alive, embedUrl, changes, shouldLoad,
                  zoneIn, poolEntryRef, hasController, isPlayingRef, claimPending,
                  diedPlaying >>

VisNotFullReleasing(i) ==
  /\ UNCHANGED cardVars
  /\ Observing(i)
  /\ full' = [full EXCEPT ![i] = FALSE]
  /\ ev' = Ev("notfull", i, poolEntryRef[i])
  /\ IF poolEntryRef[i] # 0
     THEN /\ DropEntry(i)
          /\ isVisibleRef' = [isVisibleRef EXCEPT ![i] = FALSE]
     ELSE UNCHANGED << pool, parking, host, poolEntryRef, isPlayingRef, hasController,
                       lastCmd, isVisibleRef >>
  /\ UNCHANGED << apiReady, claims, alive, embedUrl, changes, shouldLoad, zoneIn,
                  claimPending, diedPlaying, sdkFailures >>
  /\ UNCHANGED msgVars
\* Visibility observer, ratio < 0.99 (lines 415-425)
VisNotFull(i) ==
  /\ UNCHANGED cardVars
  /\ UNCHANGED sdkFailures
  /\ UNCHANGED msgVars
  /\ Observing(i)
  /\ full' = [full EXCEPT ![i] = FALSE]
  /\ LET e == poolEntryRef[i]
         p1 == IF pool[e].role = "visible" THEN updateRole(pool, e, "recent") ELSE pool
     IN IF e # 0
        THEN /\ pool' = IF isPlayingRef[i] THEN pauseController(p1, e) ELSE p1
             /\ isVisibleRef' = [isVisibleRef EXCEPT ![i] = FALSE]
             /\ isPlayingRef' = [isPlayingRef EXCEPT ![i] = FALSE]
             /\ lastCmd' = IF isPlayingRef[i] THEN [lastCmd EXCEPT ![i] = "pause"]
                           ELSE lastCmd
             /\ ev' = [Ev("notfull", i, e) EXCEPT
                         !.cmd = IF isPlayingRef[i] THEN "pause" ELSE "-"]
        ELSE /\ ev' = Ev("notfull", i, 0)
             /\ UNCHANGED << pool, isVisibleRef, isPlayingRef, lastCmd >>
  /\ UNCHANGED << parking, host, apiReady, claims, alive, embedUrl, changes, shouldLoad,
                  zoneIn, poolEntryRef, hasController, claimPending, diedPlaying >>

\* The widget of entry e reports its playback state to the registered
\* onPlaybackChange callback (lines 443-446)
PlaybackUpdate(e) ==
  /\ UNCHANGED cardVars
  /\ UNCHANGED lastCmd
  /\ UNCHANGED sdkFailures
  /\ UNCHANGED msgVars
  /\ e \in 1..Len(pool)
  /\ pool[e].cb # 0
  /\ isPlayingRef[pool[e].cb] # pool[e].playing
  /\ isPlayingRef' = [isPlayingRef EXCEPT ![pool[e].cb] = pool[e].playing]
  /\ ev' = Ev("playback", pool[e].cb, e)
  /\ UNCHANGED << pool, parking, host, apiReady, claims, alive, embedUrl, changes,
                  shouldLoad, zoneIn, full, poolEntryRef, hasController, isVisibleRef,
                  claimPending, diedPlaying >>

\* Effect cleanups at unmount (lines 388-398, 434, 447, 571-577); the state of
\* the instance is discarded with it
Unmount(i) ==
  /\ UNCHANGED cardVars
  /\ UNCHANGED sdkFailures
  /\ alive[i]
  /\ alive' = [alive EXCEPT ![i] = FALSE]
  /\ claims' = CancelClaims(i)
  /\ diedPlaying' = IF isPlayingRef[i] THEN diedPlaying \cup {i} ELSE diedPlaying
  /\ ev' = Ev("unmount", i, poolEntryRef[i])
  /\ IF poolEntryRef[i] # 0
     THEN DropEntry(i)
     ELSE UNCHANGED << pool, parking, host, poolEntryRef, isPlayingRef, hasController,
                       lastCmd >>
  /\ zoneIn' = [zoneIn EXCEPT ![i] = FALSE]
  /\ full' = [full EXCEPT ![i] = FALSE]
  /\ isVisibleRef' = [isVisibleRef EXCEPT ![i] = FALSE]
  /\ claimPending' = [claimPending EXCEPT ![i] = FALSE]
  /\ shouldLoad' = [shouldLoad EXCEPT ![i] = FALSE]
  /\ embedUrl' = [embedUrl EXCEPT ![i] = InitialUrl(i)]
  /\ timers' = ClearTimeout(timers, readyTimerRef[i])
  /\ readyTimerRef' = [readyTimerRef EXCEPT ![i] = 0]
  /\ hasError' = [hasError EXCEPT ![i] = FALSE]
  /\ waiting' = [waiting EXCEPT ![i] = FALSE]
  /\ sent' = << >>
  /\ UNCHANGED << apiReady, changes, platform, isPlayerReadyRef, timerSeq >>

\* The embedUrl prop changes: the preload-zone effect is cleaned up and run
\* again with a new closure (line 399); its new observer reports the zone
\* through PreloadEnter. The readiness effect (lines 561-568) runs again.
ContentChange(i, url) ==
  /\ UNCHANGED cardVars
  /\ UNCHANGED sdkFailures
  /\ alive[i]
  /\ changes < MaxContentChanges
  /\ url # embedUrl[i]
  /\ embedUrl' = [embedUrl EXCEPT ![i] = url]
  /\ changes' = changes + 1
  /\ ev' = Ev("content", i, poolEntryRef[i])
  /\ IF shouldLoad[i]
     THEN /\ claims' = CancelClaims(i)
          /\ claimPending' = [claimPending EXCEPT ![i] = FALSE]
          /\ IF poolEntryRef[i] # 0
             THEN DropEntry(i)
             ELSE UNCHANGED << pool, parking, host, poolEntryRef, isPlayingRef,
                               hasController, lastCmd >>
     ELSE UNCHANGED << claims, claimPending, pool, parking, host, poolEntryRef,
                       isPlayingRef, hasController, lastCmd >>
  /\ isPlayerReadyRef' = [isPlayerReadyRef EXCEPT ![i] = FALSE]
  /\ timers' = ClearTimeout(timers, readyTimerRef[i])
  /\ readyTimerRef' = [readyTimerRef EXCEPT ![i] = 0]
  /\ sent' = << >>
  /\ UNCHANGED << apiReady, alive, shouldLoad, zoneIn, full, isVisibleRef, diedPlaying,
                  platform, hasError, timerSeq, waiting >>

Next ==
  \/ \E i \in Inst : LazyLoad(i)
  \/ \E i \in Inst : PreloadEnter(i)
  \/ \E i \in Inst : PreloadLeave(i)
  \/ SdkReady
  \/ \E k \in ClaimSlots : ControllerCreated(k, TRUE)
  \/ \E i \in Inst : VisFull(i)
  \/ \E i \in Inst : VisNotFull(i)
  \/ \E e \in ClaimSlots : PlaybackUpdate(e)
  \/ \E i \in Inst : Unmount(i)
  \/ \E i \in Inst, url \in EmbedUrls : ContentChange(i, url)

Spec == Init /\ [][Next]_vars

\* The same feed with an SDK that may call back without having created an
\* iframe (claimController lines 71-75), the cards keeping their embedUrl
NextSdk ==
  \/ \E i \in Inst : LazyLoad(i)
  \/ \E i \in Inst : PreloadEnter(i)
  \/ \E i \in Inst : PreloadLeave(i)
  \/ SdkReady
  \/ \E k \in ClaimSlots, ok \in BOOLEAN : ControllerCreated(k, ok)
  \/ \E i \in Inst : VisFull(i)
  \/ \E i \in Inst : VisNotFull(i)
  \/ \E e \in ClaimSlots : PlaybackUpdate(e)
  \/ \E i \in Inst : Unmount(i)

SpecSdk == Init /\ [][NextSdk]_vars


\* A feed of YouTube or Vimeo cards
InitMsg ==
  /\ Mounted
  /\ \E pf \in MsgPlatforms : platform = [i \in Inst |-> pf]
  /\ destinationUrl = [i \in Inst |-> "supported"]

\* Visibility observer of a YouTube/Vimeo card (lines 584-597); shouldPlay is
\* isIntersecting && intersectionRatio > 0.5 of the delivered entry
ZoneEvent(i, shouldPlay) ==
  /\ UNCHANGED cardVars
  /\ UNCHANGED sdkFailures
  /\ alive[i] /\ shouldLoad[i] /\ platform[i] # "spotify"
  /\ isVisibleRef' = [isVisibleRef EXCEPT ![i] = shouldPlay]
  /\ IF PlaysOnZone(shouldPlay, isPlayerReadyRef[i], isPlayingRef[i])
     THEN playVideo(i, "zone", 0)
     ELSE IF PausesOnZone(shouldPlay, isPlayingRef[i])
     THEN pauseVideo(i, "zone", 0)
     ELSE NoCommand(i, "zone", 0)
  /\ waiting' = [waiting EXCEPT ![i] =
                   IF ~shouldPlay THEN FALSE
                   ELSE IF ~isVisibleRef[i] THEN ~isPlayerReadyRef[i]
                   ELSE waiting[i] /\ ~isPlayerReadyRef[i]]
  /\ UNCHANGED << pool, parking, host, apiReady, claims, alive, embedUrl, changes,
                  shouldLoad, zoneIn, full, poolEntryRef, hasController, claimPending,
                  diedPlaying, platform, hasError, isPlayerReadyRef, readyTimerRef,
                  timers, timerSeq >>

\* The frame posts its readiness message (lines 524-540): initialDelivery for
\* YouTube, ready for Vimeo; event.source is the rendered frame
ReadyMessage(i) ==
  /\ UNCHANGED cardVars
  /\ UNCHANGED sdkFailures
  /\ IframeRef(i)
  /\ isPlayerReadyRef' = [isPlayerReadyRef EXCEPT ![i] = TRUE]
  /\ timers' = ClearTimeout(timers, readyTimerRef[i])
  /\ readyTimerRef' = [readyTimerRef EXCEPT ![i] = 0]
  /\ IF tryAutoplay(isVisibleRef[i], TRUE, isPlayingRef[i])
     THEN /\ playVideo(i, "ready", 0)
          /\ waiting' = [waiting EXCEPT ![i] = FALSE]
     ELSE /\ NoCommand(i, "ready", 0)
          /\ UNCHANGED waiting
  /\ UNCHANGED << pool, parking, host, apiReady, claims, alive, embedUrl, changes,
                  shouldLoad, zoneIn, full, poolEntryRef, hasController, isVisibleRef,
                  claimPending, diedPlaying, platform, hasError, timerSeq >>

\* The load event of the frame (handleIframeLoad, lines 551-559)
IframeLoad(i) ==
  /\ UNCHANGED cardVars
  /\ UNCHANGED sdkFailures
  /\ IframeRef(i)
  /\ IF isPlayerReadyRef[i]
     THEN UNCHANGED << timers, timerSeq, readyTimerRef >>
     ELSE /\ timerSeq < MaxTimers
          /\ timerSeq' = timerSeq + 1
          /\ timers' = timers \cup {[id |-> timerSeq + 1, inst |-> i, url |-> embedUrl[i]]}
          /\ readyTimerRef' = [readyTimerRef EXCEPT ![i] = timerSeq + 1]
  /\ NoCommand(i, "frameload", 0)
  /\ UNCHANGED << pool, parking, host, apiReady, claims, alive, embedUrl, changes,
                  shouldLoad, zoneIn, full, poolEntryRef, hasController, isVisibleRef,
                  claimPending, diedPlaying, platform, hasError, isPlayerReadyRef,
                  waiting >>

\* The callback of the pending timer id runs after 500 ms (lines 553-558)
TimerFires(id) ==
  \E t \in timers :
    /\ t.id = id
    /\ timers' = timers \ {t}
    /\ IF ~isPlayerReadyRef[t.inst]
       THEN /\ isPlayerReadyRef' = [isPlayerReadyRef EXCEPT ![t.inst] = TRUE]
            /\ IF tryAutoplay(isVisibleRef[t.inst], TRUE, isPlayingRef[t.inst])
               THEN /\ playVideo(t.inst, "timer", id)
                    /\ waiting' = [waiting EXCEPT ![t.inst] =
                                     waiting[t.inst] /\ ~IframeRef(t.inst)]
               ELSE /\ NoCommand(t.inst, "timer", id)
                    /\ UNCHANGED waiting
       ELSE /\ NoCommand(t.inst, "timer", id)
            /\ UNCHANGED << isPlayerReadyRef, waiting >>
    /\ UNCHANGED << pool, parking, host, apiReady, claims, alive, embedUrl, changes,
                    shouldLoad, zoneIn, full, poolEntryRef, hasController, isVisibleRef,
                    claimPending, diedPlaying, platform, hasError, readyTimerRef,
                    timerSeq, sdkFailures >>
    /\ UNCHANGED cardVars

\* The error event of the frame (handleError, lines 610-612): the frame is
\* replaced by the error message (lines 632-638)
FrameError(i) ==
  /\ UNCHANGED cardVars
  /\ UNCHANGED sdkFailures
  /\ IframeRef(i)
  /\ hasError' = [hasError EXCEPT ![i] = TRUE]
  /\ NoCommand(i, "error", 0)
  /\ UNCHANGED << pool, parking, host, apiReady, claims, alive, embedUrl, changes,
                  shouldLoad, zoneIn, full, poolEntryRef, hasController, isVisibleRef,
                  claimPending, diedPlaying, platform, isPlayerReadyRef, readyTimerRef,
                  timers, timerSeq, waiting >>

NextMsg ==
  \/ \E i \in MsgInst : LazyLoad(i)
  \/ \E i \in MsgInst, shouldPlay \in BOOLEAN : ZoneEvent(i, shouldPlay)
  \/ \E i \in MsgInst : ReadyMessage(i)
  \/ \E i \in MsgInst : IframeLoad(i)
  \/ \E id \in TimerIds : TimerFires(id)
  \/ \E i \in MsgInst : FrameError(i)
  \/ \E i \in MsgInst : Unmount(i)
  \/ \E i \in MsgInst, url \in EmbedUrls : ContentChange(i, url)

SpecMsg == InitMsg /\ [][NextMsg]_vars


\* ------------------------------------------------------------ VideoCardEmbed
UrlKinds == {"none", "supported", "unsupported"}
FetchOutcomes == {"found", "nothing", "error"}

\* parseVideoUrl(destinationUrl) is not null (VideoCardEmbed lines 30-31)
Parses(kind) == kind = "supported"

FetchEffectIgnoringCancel(cancelled, outcome) ==
  IF outcome = "found" THEN "video" ELSE "fallback"
\* What loadAndExtract does when its fetch settles (lines 54-77): nothing when
\* the effect was cleaned up, else the video or the fallback
FetchEffect(cancelled, outcome) ==
  IF cancelled THEN "skip"
  ELSE IF outcome = "found" THEN "video"
  ELSE "fallback"

\* A feed of video_card fragments, with or without a cached destination_url
InitCard ==
  /\ Mounted
  /\ platform = [i \in Inst |-> "spotify"]
  /\ destinationUrl \in [Inst -> UrlKinds]

\* The effects of the first commit: fast path (lines 27-38) and slow path
\* (lines 41-93)
CardMount(i) ==
  /\ cardPhase[i] = "new"
  /\ cardPhase' = [cardPhase EXCEPT ![i] = "mounted"]
  /\ IF destinationUrl[i] # "none"
     THEN /\ attempts' = [attempts EXCEPT ![i] = @ + 1]
          /\ isLoading' = [isLoading EXCEPT ![i] = FALSE]
          /\ IF Parses(destinationUrl[i])
             THEN videoData' = [videoData EXCEPT ![i] = TRUE] /\ UNCHANGED fallback
             ELSE fallback' = [fallback EXCEPT ![i] = TRUE] /\ UNCHANGED videoData
          /\ UNCHANGED cardObserving
     ELSE /\ cardObserving' = [cardObserving EXCEPT ![i] = TRUE]
          /\ UNCHANGED << attempts, isLoading, videoData, fallback >>
  /\ UNCHANGED << destinationUrl, fetchState, cardCancelled >>
  /\ UNCHANGED feedVars

\* The slow-path observer reports the card within 1500px (lines 48-80): the
\* observer is disconnected and fetchFragmentHtml is called
CardIntersect(i) ==
  /\ cardPhase[i] = "mounted" /\ cardObserving[i]
  /\ cardObserving' = [cardObserving EXCEPT ![i] = FALSE]
  /\ fetchState' = [fetchState EXCEPT ![i] = "pending"]
  /\ attempts' = [attempts EXCEPT ![i] = @ + 1]
  /\ UNCHANGED << cardPhase, destinationUrl, videoData, fallback, isLoading,
                  cardCancelled >>
  /\ UNCHANGED feedVars

\* fetchFragmentHtml settles (lines 54-77): html with a supported url, html
\* without one, or a rejection
CardFetchSettles(i, outcome) ==
  /\ fetchState[i] = "pending"
  /\ fetchState' = [fetchState EXCEPT ![i] = "done"]
  /\ LET effect == FetchEffect(cardCancelled[i], outcome)
     IN /\ videoData' = IF effect = "video" THEN [videoData EXCEPT ![i] = TRUE]
                        ELSE videoData
        /\ fallback' = IF effect = "fallback" THEN [fallback EXCEPT ![i] = TRUE]
                       ELSE fallback
        /\ isLoading' = IF effect = "skip" THEN isLoading
                        ELSE [isLoading EXCEPT ![i] = FALSE]
        /\ attempts' = IF effect = "skip" \/ outcome = "error" THEN attempts
                       ELSE [attempts EXCEPT ![i] = @ + 1]
  /\ UNCHANGED << cardPhase, destinationUrl, cardObserving, cardCancelled >>
  /\ UNCHANGED feedVars

\* The card unmounts: cleanup of the slow-path effect (lines 89-92)
CardUnmount(i) ==
  /\ cardPhase[i] = "mounted"
  /\ cardPhase' = [cardPhase EXCEPT ![i] = "unmounted"]
  /\ cardCancelled' = IF destinationUrl[i] = "none"
                      THEN [cardCancelled EXCEPT ![i] = TRUE] ELSE cardCancelled
  /\ cardObserving' = [cardObserving EXCEPT ![i] = FALSE]
  /\ UNCHANGED << destinationUrl, videoData, fallback, isLoading, fetchState, attempts >>
  /\ UNCHANGED feedVars

NextCard ==
  \/ \E i \in Inst : CardMount(i)
  \/ \E i \in Inst : CardIntersect(i)
  \/ \E i \in Inst, outcome \in FetchOutcomes : CardFetchSettles(i, outcome)
  \/ \E i \in Inst : CardUnmount(i)

SpecCard == InitCard /\ [][NextCard]_vars

\* ------------------------------------------------------------------ helpers
Entries == DOMAIN pool
ActiveEntries == {e \in Entries : pool[e].role = "visible"}
InFlightConstructions == {k \in DOMAIN claims : claims[k].stage = "creating"}
\* the entry is claimed and its iframe sits in the container of instance i
ClaimedFor(e, i) == pool[e].claimed /\ host[pool[e].iframe] = i
Holds(i, e) == alive[i] /\ poolEntryRef[i] = e

\* ------------------------------------------------------------------- claims

\* C1: in every reachable state the pool holds at most MAX_POOL_SIZE entries.
C1_PoolWithinCapacity == Len(pool) <= MAX_POOL_SIZE

\* C2: constructions in flight (createController called, callback not yet run)
\* plus existing pool entries never exceed the capacity.
C2_InFlightPlusPoolWithinCapacity ==
  Cardinality(InFlightConstructions) + Len(pool) <= MAX_POOL_SIZE

\* C3: at most one pool entry, claimed or not, has role Active ('visible').
C3_AtMostOneActive == Cardinality(ActiveEntries) <= 1

\* C4: the entry a claim takes from its holder never has role Active at that
\* moment.
C4_StealNeverActive == ev.kind = "steal" => ev.vrole # "visible"

\* C5: a reclaimed entry is a Recent one whenever a claimed Recent entry exists,
\* and a claim for Preloading (every claim of VideoEmbed is one) never takes an
\* entry that is itself held as Preloading (claimed, never promoted).
C5_RecentBeforePreloading ==
  [][ev'.kind = "steal" =>
        /\ ev'.vrole # "none"
        /\ (\E e \in Entries : pool[e].claimed /\ pool[e].role = "recent")
              => ev'.vrole = "recent"]_vars

\* C6: with the pool at capacity and every entry held as Preloading by an embed
\* that is in its preload zone, a further claim returns null and leaves every
\* entry with its holder.
C6_FullPoolClaimReturnsNull ==
  [][(/\ Len(pool) >= MAX_POOL_SIZE
      /\ \A e \in Entries :
           /\ pool[e].claimed /\ pool[e].role = "none"
           /\ \E j \in Inst : Holds(j, e) /\ zoneIn[j] /\ ClaimedFor(e, j)
      /\ ev'.op = "claim")
        => /\ ev'.kind = "null"
           /\ pool' = pool /\ host' = host
           /\ poolEntryRef' = poolEntryRef]_vars

\* C7: no pool entry is referenced by the poolEntryRef of two mounted instances.
C7_NoEntryHeldTwice ==
  \A i, j \in Inst :
    (i # j /\ alive[i] /\ alive[j] /\ poolEntryRef[i] # 0)
      => poolEntryRef[i] # poolEntryRef[j]

\* C8: when a claim resolves for an instance that has left its preload zone in
\* the meantime, the instance ends with no entry and no entry stays claimed in
\* its container.
C8_ResolveOutOfZoneReleases ==
  (ev.op = "created" /\ ev.live /\ alive[ev.inst] /\ ~zoneIn[ev.inst])
    => /\ poolEntryRef[ev.inst] = 0
       /\ \A e \in Entries : ~ClaimedFor(e, ev.inst)

\* C9: no pool entry is claimed with its iframe in the container of an
\* unmounted instance.
C9_NothingClaimedForUnmounted ==
  \A i \in Inst : ~alive[i] => \A e \in Entries : ~ClaimedFor(e, i)

\* C10: an instance that was playing when it unmounted has its entry released
\* by the unmount, and nothing is done on its behalf afterwards.
C10_NothingAfterPlayingUnmount ==
  ev.inst \in diedPlaying
    => /\ ev.op = "unmount"
       /\ ev.entry # 0 => (~pool[ev.entry].claimed /\ host[pool[ev.entry].iframe] = 0)


\* ------------------------------------------- claims on the YouTube/Vimeo card
\* The task just done belongs to card i and posted the play (pause) sequence
Played(i) == ev.inst = i /\ ev.cmd = "play"
Paused(i) == ev.inst = i /\ ev.cmd = "pause"

\* C11: a YouTube/Vimeo card never posts a play sequence twice without a pause
\* sequence posted in between, whatever the order of zone events, readiness
\* messages and fallback timers.
C11_NoPlayTwiceWithoutPause ==
  [][\A i \in MsgInst : (ev'.inst = i /\ ev'.cmd = "play") => lastCmd[i] # "play"]_vars

\* A readiness message or a timer reaches a card that is in the active zone,
\* ready and playing since its last play sequence: nothing is posted
C11_Witness ==
  \E i \in MsgInst :
    /\ ev.inst = i /\ ev.op \in {"ready", "timer"} /\ ev.cmd = "-"
    /\ IframeRef(i) /\ isVisibleRef[i] /\ isPlayerReadyRef[i] /\ lastCmd[i] = "play"

\* C12: at every step in which (in the active zone, player ready) becomes true
\* for a card with its frame, a play sequence is posted in that step, also
\* when readiness had been reset by a content change while the card stayed in
\* the active zone.
C12_PlayWheneverPairBecomesTrue ==
  [][\A i \in MsgInst :
       ( /\ IframeRef(i)
         /\ ~(isVisibleRef[i] /\ isPlayerReadyRef[i])
         /\ isVisibleRef'[i] /\ isPlayerReadyRef'[i] )
       => (ev'.inst = i /\ ev'.cmd = "play")]_vars

\* C13: no play sequence is posted while the player is not ready; entering the
\* active zone before readiness posts nothing, and the play sequence is posted
\* in the step in which readiness arrives if the card is still in the zone.
C13_NoPlayBeforeReady ==
  [][\A i \in MsgInst :
       /\ (ev'.inst = i /\ ev'.cmd = "play") => isPlayerReadyRef'[i]
       /\ (ev'.inst = i /\ ev'.op = "zone" /\ ~isPlayerReadyRef[i]
             /\ ~isVisibleRef[i] /\ isVisibleRef'[i])
          => (ev'.cmd = "-" /\ sent' = << >>)
       /\ (ev'.inst = i /\ ev'.op \in {"ready", "timer"} /\ IframeRef(i)
             /\ waiting[i] /\ isPlayerReadyRef'[i])
          => (ev'.cmd = "play" /\ sent' = PlayCommands(platform[i])
                /\ lastCmd[i] # "play")]_vars

\* The readiness message reaches a card that waited in the active zone: the
\* play sequence is posted by that task
C13_Witness ==
  \E i \in MsgInst :
    Played(i) /\ ev.op = "ready" /\ ~waiting[i] /\ isVisibleRef[i] /\ sent # << >>

\* C14: when a fallback timer fires on a card with its frame and the player is
\* not ready, the player becomes ready in that step and a play sequence is
\* posted in that step exactly when the card is in the active zone and not
\* playing.
C14_FallbackMakesReady ==
  [][\A i \in MsgInst :
       (ev'.inst = i /\ ev'.op = "timer" /\ IframeRef(i) /\ ~isPlayerReadyRef[i])
       => /\ isPlayerReadyRef'[i]
          /\ (ev'.cmd = "play") <=> (isVisibleRef[i] /\ ~isPlayingRef[i])]_vars

C14_Witness ==
  \E i \in MsgInst : Played(i) /\ ev.op = "timer" /\ IframeRef(i)

\* C15: after a readiness message has been handled no fallback timer of that
\* card is pending.
C15_ReadyCancelsTimers ==
  ev.op = "ready" => \A t \in timers : t.inst # ev.inst

\* C16: a change of embedUrl makes the player not ready, and the player stays
\* not ready until a readiness message or a timer started for the new content
\* makes it ready: a timer that sets readiness was started for the content
\* the card shows.
C16_ReadinessResetOnContentChange ==
  [][\A i \in MsgInst :
       /\ (ev'.inst = i /\ ev'.op = "content") => ~isPlayerReadyRef'[i]
       /\ (alive[i] /\ ~isPlayerReadyRef[i] /\ isPlayerReadyRef'[i])
          => \/ ev'.op = "ready"
             \/ /\ ev'.op = "timer"
                /\ \A t \in timers : t.id = ev'.entry => t.url = embedUrl[i]]_vars

\* C17: every play sequence posted to the frame is unmute, seek to start, play
\* in this order and nothing else: unMute, seekTo 0, playVideo for YouTube;
\* setVolume 1, setCurrentTime 0, play for Vimeo.
C17_PlaySequence ==
  \A i \in MsgInst :
    Played(i) =>
      /\ platform[i] = "youtube" => sent = << "unMute", "seekTo 0", "playVideo" >>
      /\ platform[i] = "vimeo" => sent = << "setVolume 1", "setCurrentTime 0", "play" >>
      /\ platform[i] \in {"youtube", "vimeo"}

C17_Witness ==
  \E i \in MsgInst : Played(i) /\ platform[i] = "vimeo" /\ Len(sent) = 3

\* C18: every pause sequence posted to the frame is pause, mute in this order
\* and nothing else: pauseVideo, mute for YouTube; pause, setVolume 0 for Vimeo.
C18_PauseSequence ==
  \A i \in MsgInst :
    Paused(i) =>
      /\ platform[i] = "youtube" => sent = << "pauseVideo", "mute" >>
      /\ platform[i] = "vimeo" => sent = << "pause", "setVolume 0" >>
      /\ platform[i] \in {"youtube", "vimeo"}

C18_Witness ==
  \E i \in MsgInst : Paused(i) /\ platform[i] = "youtube" /\ Len(sent) = 2


\* ------------------------------------------------ claims on the pool, again
\* C19: a claim that reuses a free entry whose loaded uri is the requested one
\* calls loadUri zero times; a claim that returns an entry whose loaded uri
\* differs calls loadUri once with the requested uri, which becomes the
\* entry's loaded uri. A newly constructed entry is created with the
\* requested uri and sees no loadUri.
C19_LoadUriOnlyOnChange ==
  [][LET e   == ev'.entry
         uri == getSpotifyUri(embedUrl[ev'.inst])
     IN /\ (ev'.op = "claim" /\ ev'.kind \in {"free", "steal"} /\ e # 0)
           => /\ pool[e].uri = uri => (ev'.loads = 0 /\ pool'[e].uri = uri)
              /\ pool[e].uri # uri => (ev'.loads = 1 /\ pool'[e].uri = uri)
        /\ (ev'.op = "created" /\ ev'.kind = "new" /\ e # 0) => ev'.loads = 0]_vars

\* A free entry already loaded with the requested uri is claimed again
C19_Witness ==
  ev.op = "claim" /\ ev.kind = "free" /\ ev.entry # 0 /\ ev.loads = 0

\* C20: the iframe of every pool entry is in the parking container when the
\* entry is unclaimed and in the container of the one mounted instance that
\* holds the entry when it is claimed; it is never in the container of an
\* instance that does not hold the entry.
C20_IframeWithHolderOrParked ==
  \A e \in Entries :
    LET f == pool[e].iframe
    IN /\ ~pool[e].claimed => host[f] = 0
       /\ pool[e].claimed => \E i \in Inst : host[f] = i /\ Holds(i, e)
       /\ \A i \in Inst : host[f] = i => Holds(i, e)


\* iframe f is a child of the parking container
Parked(prk, f) == \E n \in DOMAIN prk : prk[n] = f

\* The claims of instance i that are suspended in claimController
InFlightOf(cs, i) == {k \in DOMAIN cs : cs[k].inst = i}

\* C21: releaseController(entry) clears the entry's claimed flag and parks its
\* iframe, leaving its uri and every other entry and iframe as they were;
\* releasing twice gives the state of releasing once; releaseController(null)
\* changes nothing. Checked on every reachable pool and on the zone-leave
\* release of a held entry.
C21_ReleaseParksOnly ==
  [][/\ releaseController(PS, 0) = PS
     /\ \A e \in Entries :
          LET r == releaseController(PS, e)
              f == pool[e].iframe
          IN /\ ~r.pool[e].claimed
             /\ r.host[f] = 0 /\ Parked(r.parking, f)
             /\ r.pool[e].uri = pool[e].uri
             /\ \A o \in Entries \ {e} : r.pool[o] = pool[o]
             /\ \A g \in DOMAIN host : g # f => r.host[g] = host[g]
             /\ releaseController(r, e) = r
     /\ (ev'.op = "leave" /\ ev'.entry # 0) =>
          LET e == ev'.entry
              f == pool[e].iframe
          IN /\ ~pool'[e].claimed
             /\ host'[f] = 0 /\ Parked(parking', f)
             /\ pool'[e].uri = pool[e].uri
             /\ \A o \in Entries \ {e} : pool'[o] = pool[o]
             /\ \A g \in DOMAIN host : g # f => host'[g] = host[g]]_vars

\* An instance left its preload zone and released its entry while the pool
\* holds another entry
C21_Witness ==
  /\ ev.op = "leave" /\ ev.entry # 0 /\ Len(pool) >= 2
  /\ ~pool[ev.entry].claimed /\ host[pool[ev.entry].iframe] = 0

C23_ClaimPrefersFreeEntry ==
  [][(ev'.op = "claim" /\ \E e \in Entries : ~pool[e].claimed) =>
       LET e == ev'.entry
       IN /\ ev'.kind = "free"
          /\ e \in Entries /\ ~pool[e].claimed /\ pool'[e].claimed
          /\ Len(pool') = Len(pool) /\ claims' = claims /\ Len(host') = Len(host)
          /\ \A o \in Entries \ {e} :
               /\ pool'[o].claimed = pool[o].claimed
               /\ pool[o].iframe # pool[e].iframe
                    => host'[pool[o].iframe] = host[pool[o].iframe]]_vars

\* A free entry loaded with another uri is claimed
C23_Witness ==
  ev.op = "claim" /\ ev.kind = "free" /\ ev.entry # 0 /\ ev.loads = 1

\* C24: an entry appended to the pool stays in the pool with its iframe, so
\* the pool never shrinks, and the iframe of an unclaimed entry is a child of
\* the parking container.
C24_EntriesNeverDestroyed ==
  [][/\ Len(pool') >= Len(pool)
     /\ \A e \in Entries : pool'[e].iframe = pool[e].iframe
     /\ \A e \in DOMAIN pool' :
          ~pool'[e].claimed =>
             (host'[pool'[e].iframe] = 0 /\ Parked(parking', pool'[e].iframe))]_vars

\* A card unmounted and its entry is back in the parking container
C24_Witness ==
  /\ ev.op = "unmount" /\ ev.entry # 0
  /\ ~pool[ev.entry].claimed /\ Parked(parking, pool[ev.entry].iframe)

\* C25: a mounted card with hasError true keeps hasError true, and no task of
\* that card posts a play or a pause sequence.
C25_ErroredIsTerminal ==
  [][\A i \in MsgInst :
       (hasError[i] /\ alive'[i]) =>
          /\ hasError'[i]
          /\ ev'.inst = i => (ev'.cmd = "-" /\ sent' = << >>)]_vars

\* A card in error, ready and playing before the error, is told it left the
\* active zone: no pause sequence is posted
C25_Witness ==
  \E i \in MsgInst :
    /\ hasError[i] /\ alive[i] /\ ev.inst = i /\ ev.op = "zone"
    /\ ~isVisibleRef[i] /\ isPlayingRef[i] /\ isPlayerReadyRef[i]

\* C26: when the claim of a current preload-zone effect resolves to null, the
\* instance holds no entry, hasController is false, no claim is pending and
\* the pool is as before; a claim is suspended only by a preload-zone-enter
\* event, and such an event on an instance with no entry and no pending claim
\* issues a claim.
C26_NullClaimLeavesNothing ==
  [][LET i == ev'.inst
     IN /\ (ev'.op \in {"claim", "created"} /\ ev'.kind = "null" /\ ev'.live) =>
             /\ poolEntryRef'[i] = 0 /\ ~hasController'[i] /\ ~claimPending'[i]
             /\ pool' = pool
             /\ \A e \in Entries : host'[pool[e].iframe] = host[pool[e].iframe]
        /\ Len(claims') > Len(claims) => ev'.op = "claim"
        /\ (ev'.op \in {"claim", "enter"} /\ poolEntryRef[i] = 0 /\ ~claimPending[i])
             => ev'.op = "claim"]_vars

\* The claim of a mounted card in its preload zone resolved to null
C26_Witness ==
  /\ ev.op = "created" /\ ev.kind = "null" /\ ev.live
  /\ alive[ev.inst] /\ zoneIn[ev.inst] /\ ~claimPending[ev.inst]

\* C27: while the callback of its construction has not run, a mounted
\* instance keeps its suspended claim, holds no entry and issues no further
\* claim.
C27_StalledClaimStaysPending ==
  [][\A i \in Inst :
       (InFlightOf(claims, i) # {} /\ alive'[i]
          /\ ~(ev'.op = "created" /\ ev'.inst = i)) =>
          /\ poolEntryRef'[i] = 0
          /\ Cardinality(InFlightOf(claims', i)) = Cardinality(InFlightOf(claims, i))]_vars

\* C29: when the claim of a mounted card that is fully visible resolves with
\* an entry, that step makes the entry visible and calls playController.
C29_ResolveWhileVisiblePlays ==
  [][LET i == ev'.inst
         e == ev'.entry
     IN (ev'.op \in {"claim", "created"} /\ e # 0 /\ ev'.live /\ alive[i] /\ full[i])
        => (pool'[e].role = "visible" /\ ev'.cmd = "play")]_vars

\* C30: an instance never calls playController twice without a
\* pauseController call or a release in between.
C30_NoPlayControllerTwice ==
  [][\A i \in Inst :
       (ev'.inst = i /\ ev'.cmd = "play" /\ ev'.op \in {"full", "claim", "created"})
       => lastCmd[i] # "play"]_vars


\* C28: a VideoCardEmbed whose url is not resolved (parseVideoUrl returns
\* null, extractVideoUrl finds nothing, or the fetch fails) shows the fallback
\* from that step on; once fallback is true it stays true and the card
\* fetches and parses nothing more; after unmount no state of the card
\* changes.
C28_FallbackIsFinal ==
  [][\A i \in Inst :
       /\ (cardPhase[i] = "new" /\ cardPhase'[i] = "mounted"
             /\ destinationUrl[i] = "unsupported") => fallback'[i]
       /\ (cardPhase[i] = "mounted" /\ fetchState[i] = "pending"
             /\ fetchState'[i] = "done" /\ ~videoData'[i]) => fallback'[i]
       /\ fallback[i] => (fallback'[i] /\ attempts'[i] = attempts[i]
                            /\ fetchState'[i] # "pending"
                            /\ videoData'[i] = videoData[i])
       /\ cardPhase[i] = "unmounted" =>
            /\ videoData'[i] = videoData[i] /\ fallback'[i] = fallback[i]
            /\ isLoading'[i] = isLoading[i] /\ attempts'[i] = attempts[i]]_vars

\* A fetch settled after its card had unmounted and left it as it was
C28_Witness ==
  \E i \in Inst :
    /\ cardPhase[i] = "unmounted" /\ fetchState[i] = "done"
    /\ ~fallback[i] /\ ~videoData[i] /\ isLoading[i]
    /\ \E j \in Inst : fallback[j] /\ destinationUrl[j] = "none"


\* ------------------------------------------------ claims on the pooled embed
\* Instance i is in the Playing phase: it holds an entry, its last visibility
\* event reported it fully visible, and its last call on the entry is
\* playController (no pauseController call and no release since)
PooledPlaying(i) ==
  alive[i] /\ poolEntryRef[i] # 0 /\ full[i] /\ lastCmd[i] = "play"

\* C31: when a pooled embed that is Playing leaves the active zone, its entry
\* becomes recent, stays claimed with its iframe in the container of that
\* instance, and pauseController is called for it.
C31_LeaveActiveZonePauses ==
  [][\A i \in Inst :
       (PooledPlaying(i) /\ ev'.op = "notfull" /\ ev'.inst = i) =>
          LET e == poolEntryRef[i]
          IN /\ pool'[e].role = "recent"
             /\ pool'[e].claimed /\ host'[pool'[e].iframe] = i
             /\ poolEntryRef'[i] = e
             /\ ev'.cmd = "pause"]_vars

\* C32: after a preload-zone-leave event of an instance that held an entry,
\* the instance holds no entry, hasController and the playing mark are false,
\* and the entry is unclaimed with its iframe in the parking container.
C32_PreloadLeaveReleases ==
  (ev.op = "leave" /\ ev.entry # 0) =>
     /\ poolEntryRef[ev.inst] = 0
     /\ ~hasController[ev.inst] /\ ~isPlayingRef[ev.inst]
     /\ ~pool[ev.entry].claimed
     /\ host[pool[ev.entry].iframe] = 0 /\ Parked(parking, pool[ev.entry].iframe)

\* An instance left its preload zone while its entry was visible and playing
C32_Witness ==
  /\ ev.op = "leave" /\ ev.entry # 0
  /\ pool[ev.entry].role = "visible" /\ pool[ev.entry].playing
  /\ poolEntryRef[ev.inst] = 0 /\ ~pool[ev.entry].claimed

\* C33: when a claim resolves with an entry (and the continuation does not
\* promote it in the same task), the role of the entry is the one claimed for,
\* Preloading: the role it had under an earlier holder does not survive.
C33_ClaimedRoleIsPreloading ==
  [][(ev'.op \in {"claim", "created"} /\ ev'.entry # 0 /\ ev'.cmd # "play")
        => pool'[ev'.entry].role = "none"]_vars


\* C34: a release done by an instance (zone leave, effect cleanup at unmount
\* or at a content change) is the release of an entry that is claimed with
\* its iframe in the container of that instance.
C34_ReleaseOnlyOwnEntry ==
  [][(ev'.op \in {"leave", "unmount", "content"} /\ ev'.entry # 0)
        => ClaimedFor(ev'.entry, ev'.inst)]_vars

\* C35: when an instance releases an entry on which it has called
\* playController, it has called pauseController on it since.
C35_ReleasedEntryWasPaused ==
  [][(ev'.op \in {"leave", "unmount", "content"} /\ ev'.entry # 0)
        => lastCmd[ev'.inst] # "play"]_vars

\* C36: an instance has at most one claimController call unresolved, and
\* holds no entry while a claim of its current effect is pending.
C36_OneClaimInFlight ==
  \A i \in Inst :
    /\ Cardinality(InFlightOf(claims, i)) <= 1
    /\ ~(alive[i] /\ poolEntryRef[i] # 0 /\ claimPending[i])

\* The fallback timers of card i that are pending
PendingTimers(i) == {t \in timers : t.inst = i}

\* C37: a YouTube/Vimeo card has at most one fallback timer pending, and a
\* pending timer is the one readyTimerRef refers to; none is pending after a
\* readiness message, a content change or unmount.
C37_OneTrackedTimer ==
  \A i \in MsgInst :
    /\ Cardinality(PendingTimers(i)) <= 1
    /\ \A t \in PendingTimers(i) : t.id = readyTimerRef[i]
    /\ (ev.inst = i /\ ev.op \in {"ready", "content", "unmount"})
          => PendingTimers(i) = {}

\* C38: after every task a mounted YouTube/Vimeo card marked playing is in the
\* active zone with its player ready; a zone event that takes a playing card
\* out of the active zone posts the pause sequence and clears the mark.
C38_PlayingInZoneAndReady ==
  [][\A i \in MsgInst :
       /\ (alive'[i] /\ isPlayingRef'[i]) => (isVisibleRef'[i] /\ isPlayerReadyRef'[i])
       /\ (ev'.inst = i /\ ev'.op = "zone" /\ isPlayingRef[i] /\ ~isVisibleRef'[i])
            => (ev'.cmd = "pause" /\ sent' = PauseCommands(platform[i])
                  /\ ~isPlayingRef'[i])]_vars

\* C39: no two entries of the pool have the same iframe.
C39_EntriesHaveOwnIframe ==
  \A e1, e2 \in Entries : e1 # e2 => pool[e1].iframe # pool[e2].iframe

=============================================================================
